---- MODULE Spec2Model ----
(***************************************************************************)
(* Model of the address-validation engine (src/email_validator.py):        *)
(* EmailValidator.validate_single_email, get_mx_records, validate_smtp     *)
(* and the thread-pool batch generator validate_emails_batch; of the       *)
(* ingestion step CSVProcessor.extract_emails (src/csv_processor.py); and  *)
(* of the session state of the dashboard (src/app.py).                     *)
(*                                                                         *)
(* Strings that the code takes apart (addresses, domains, host names) are  *)
(* sequences of one-character strings.  Status and reason texts, which     *)
(* the code only builds and compares, are TLA+ strings.                    *)
(***************************************************************************)
EXTENDS Integers, Sequences, FiniteSets, TLC

VARIABLES
    emails,        \* the list handed to validate_emails_batch
    max_workers,   \* self.max_workers
    fut,           \* the Future of each submitted call
    frame,         \* the locals of each running validate_single_email
    snap,          \* as_completed: futures found finished at its start
    waiter,        \* as_completed: futures finished since, oldest first
    completed,     \* history: the calls in the order they finished
    yielded,       \* history: what the generator has yielded, in order
    gen,           \* position of the generator
    traced,        \* the calls whose network traffic is recorded
    wire,          \* history: the network events of each traced call
    fault,         \* history: whether an exception was raised inside a call
    world,         \* the DNS and the mail hosts: what they have answered so far
    csv,           \* a call of CSVProcessor.extract_emails
    session_state, \* st.session_state of the dashboard (src/app.py)
    script         \* the script run of the dashboard that validates, if any

vars == <<emails, max_workers, fut, frame, snap, waiter, completed, yielded,
          gen, traced, wire, fault, world, csv, session_state, script>>

(***************************************************************************)
(* Bounds of the model.                                                    *)
(***************************************************************************)
\* longest batch handed to validate_emails_batch
MaxBatch == 2
\* largest worker-pool size tried for max_workers
MaxPool == 2
\* longest MX answer the resolver returns
MaxMx == 4
\* longest raw input enumerated for a single validation
MaxLen == 6
\* most addresses validated in one session of the dashboard
MaxChecked == 3
\* most rows of the column handed to extract_emails
MaxRows == 3

(***************************************************************************)
(* Characters.                                                             *)
(***************************************************************************)
LowerChars == {"a", "b", "c", "d"}
UpperChars == {"A", "B", "C", "D"}
DigitChars == {"0", "1", "2", "3", "4", "5"}
SpaceChars == {" "}
\* [a-zA-Z0-9._%+-]
LocalChars == LowerChars \cup UpperChars \cup DigitChars \cup {".", "_", "%", "+", "-"}
\* [a-zA-Z0-9.-]
DomainChars == LowerChars \cup UpperChars \cup DigitChars \cup {".", "-"}
\* [a-zA-Z]
AlphaChars == LowerChars \cup UpperChars

\* the characters raw inputs are enumerated over
Alphabet == {"a", "A", "@", ".", " "}

\* str.lower() on one character
LowerChar(c) ==
    CASE c = "A" -> "a"
      [] c = "B" -> "b"
      [] c = "C" -> "c"
      [] c = "D" -> "d"
      [] OTHER -> c

\* str.lower()
lower(s) == [i \in 1..Len(s) |-> LowerChar(s[i])]

RECURSIVE lstrip(_)
lstrip(s) == IF s # <<>> /\ Head(s) \in SpaceChars THEN lstrip(Tail(s)) ELSE s

RECURSIVE rstrip(_)
rstrip(s) ==
    IF s # <<>> /\ s[Len(s)] \in SpaceChars
    THEN rstrip(SubSeq(s, 1, Len(s) - 1))
    ELSE s

\* str.strip()
strip(s) == rstrip(lstrip(s))

RECURSIVE rstripDot(_)
\* str.rstrip('.')
rstripDot(s) ==
    IF s # <<>> /\ s[Len(s)] = "."
    THEN rstripDot(SubSeq(s, 1, Len(s) - 1))
    ELSE s

\* positions of '@' in s
AtPositions(s) == {i \in 1..Len(s) : s[i] = "@"}

Min(S) == CHOOSE m \in S : \A n \in S : m <= n

\* s.split('@'): the list of pieces between the '@' separators
RECURSIVE split(_)
split(s) ==
    IF AtPositions(s) = {}
    THEN <<s>>
    ELSE LET p == Min(AtPositions(s))
         IN  <<SubSeq(s, 1, p - 1)>> \o split(SubSeq(s, p + 1, Len(s)))

\* re.compile(r'^[a-zA-Z0-9._%+-]+@[a-zA-Z0-9.-]+\.[a-zA-Z]{2,}$').match(s)
\* ($ also matches before a final newline; every caller strips s first)
email_regex(s) ==
    \E p \in 1..Len(s) : \E q \in 1..Len(s) :
        /\ s[p] = "@"
        /\ p > 1
        /\ \A i \in 1..(p - 1) : s[i] \in LocalChars
        /\ q > p + 1
        /\ s[q] = "."
        /\ \A i \in (p + 1)..(q - 1) : s[i] \in DomainChars
        /\ Len(s) - q >= 2
        /\ \A i \in (q + 1)..Len(s) : s[i] \in AlphaChars

\* EmailValidator.is_valid_email_syntax
is_valid_email_syntax(email) == email_regex(strip(email))

(***************************************************************************)
(* Exceptions.  An exception is its class name and its str().              *)
(***************************************************************************)
Exc(t, m) == [type |-> t, msg |-> m]

NoExc == Exc("none", "")

\* the exception classes the smtplib module defines
SmtplibExceptions ==
    {"SMTPException", "SMTPNotSupportedError", "SMTPServerDisconnected",
     "SMTPResponseException", "SMTPSenderRefused", "SMTPRecipientsRefused",
     "SMTPDataError", "SMTPConnectError", "SMTPHeloError",
     "SMTPAuthenticationError"}

\* what the network libraries raise besides: socket errors, resolver errors
\* and the codec error of bytes.decode()
SocketExceptions == {"ConnectionRefusedError", "TimeoutError"}

ResolverExceptions == {"NXDOMAIN", "NoAnswer", "LifetimeTimeout", "NoNameservers"}

\* the classes `except Exception` catches: every class modelled derives
\* from Exception
ExceptionClasses ==
    SmtplibExceptions \cup SocketExceptions \cup ResolverExceptions
        \cup {"UnicodeDecodeError", "AttributeError", "IndexError"}

\* what evaluating `smtplib.<name>` in an except clause raises when the
\* module has no such attribute
MissingAttribute(name) ==
    Exc("AttributeError",
        "module 'smtplib' has no attribute '" \o name \o "'")

(***************************************************************************)
(* The DNS resolver's side: what dns.resolver.resolve(domain, 'MX') does.  *)
(***************************************************************************)
\* resolver failures: the three the code names and one it does not
DnsExceptions == ResolverExceptions

\* str(mx.exchange) of the k-th mail exchanger: an absolute name, "mk."
Host(k) == <<"m", ToString(k), ".">>

\* one MX rdata
Rdata(k) == [preference |-> 10 * k, exchange |-> Host(k)]

\* MX answers in the order the resolver returns them: of every length by
\* rising preference value, and the longest also by falling preference value
Answers ==
    {[k \in 1..n |-> Rdata(k)] : n \in 1..MaxMx}
        \cup {[k \in 1..MaxMx |-> Rdata(MaxMx + 1 - k)]}

DnsResponses ==
    {[exc |-> e, answer |-> <<>>] : e \in DnsExceptions}
        \cup {[exc |-> "none", answer |-> a] : a \in Answers}

(***************************************************************************)
(* The mail server's side: the reply to each command of one session.       *)
(* A reply either raises in smtplib (exc) or is a (code, message) pair;    *)
(* the message is bytes, utf8 tells whether bytes.decode() succeeds.       *)
(***************************************************************************)
Reply(c, t, u) == [exc |-> "none", code |-> c, text |-> t, utf8 |-> u]

Raises(e) == [exc |-> e, code |-> 0, text |-> "", utf8 |-> TRUE]

\* filler for a command the client never gets to
NotReached == [exc |-> "n/a", code |-> 0, text |-> "", utf8 |-> TRUE]

ConnectReplies ==
    {Reply(220, "ready", TRUE), Raises("SMTPConnectError"),
     Raises("ConnectionRefusedError"), Raises("TimeoutError")}

HeloReplies == {Reply(250, "hello", TRUE), Raises("SMTPServerDisconnected")}

MailReplies ==
    {Reply(250, "OK", TRUE), Reply(451, "try later", TRUE),
     Raises("SMTPServerDisconnected")}

RcptReplies ==
    {Reply(250, "OK", TRUE), Reply(251, "will forward", TRUE),
     Reply(450, "greylisted", TRUE), Reply(450, "", FALSE),
     Reply(550, "no such user", TRUE), Reply(553, "bad mailbox", TRUE),
     Raises("SMTPRecipientsRefused"), Raises("SMTPServerDisconnected")}

QuitReplies == {Reply(221, "bye", TRUE), Raises("SMTPServerDisconnected")}

Session(c, h, m, r, q) ==
    [connect |-> c, helo |-> h, mail |-> m, rcpt |-> r, quit |-> q]

IsReply(r) == r.exc = "none"

\* every way one conversation with one host can go, up to the command
\* after which smtplib raises or the client stops talking
Sessions ==
    {Session(c, NotReached, NotReached, NotReached, NotReached) :
        c \in {r \in ConnectReplies : ~IsReply(r)}}
    \cup {Session(Reply(220, "ready", TRUE), h, NotReached, NotReached, NotReached) :
        h \in {r \in HeloReplies : ~IsReply(r)}}
    \cup {Session(Reply(220, "ready", TRUE), Reply(250, "hello", TRUE), m,
                  NotReached, NotReached) :
        m \in {r \in MailReplies : ~IsReply(r)}}
    \cup {Session(Reply(220, "ready", TRUE), Reply(250, "hello", TRUE), m,
                  NotReached, q) :
        m \in {r \in MailReplies : IsReply(r) /\ r.code # 250}, q \in QuitReplies}
    \cup {Session(Reply(220, "ready", TRUE), Reply(250, "hello", TRUE),
                  Reply(250, "OK", TRUE), r, NotReached) :
        r \in {x \in RcptReplies : ~IsReply(x)}}
    \cup {Session(Reply(220, "ready", TRUE), Reply(250, "hello", TRUE),
                  Reply(250, "OK", TRUE), r, q) :
        r \in {x \in RcptReplies : IsReply(x)}, q \in QuitReplies}

(***************************************************************************)
(* Network events, recorded for the traced units of work.                  *)
(***************************************************************************)
Event(cmd, host, pos, r) ==
    [cmd |-> cmd, host |-> host, pos |-> pos, exc |-> r.exc, code |-> r.code,
     text |-> r.text, utf8 |-> r.utf8, list |-> <<>>]

(***************************************************************************)
(* EmailValidator.get_mx_records                                           *)
(***************************************************************************)
\* a faulty variant: the except tuple without the catch-all Exception
get_mx_records_narrow(domain, resp) ==
    IF resp.exc = "none"
    THEN [kind |-> "return",
          value |-> [i \in 1..Len(resp.answer) |-> rstripDot(resp.answer[i].exchange)],
          exc |-> NoExc]
    ELSE IF resp.exc \in {"NXDOMAIN", "NoAnswer", "LifetimeTimeout"}
         THEN [kind |-> "return", value |-> <<>>, exc |-> NoExc]
         ELSE [kind |-> "raise", value |-> <<>>, exc |-> Exc(resp.exc, "resolver error")]

\* a faulty variant: a domain without MX answer falls back to the domain itself
get_mx_records_fallback(domain, resp) ==
    IF resp.exc = "none"
    THEN [kind |-> "return",
          value |-> [i \in 1..Len(resp.answer) |-> rstripDot(resp.answer[i].exchange)],
          exc |-> NoExc]
    ELSE IF resp.exc = "NoAnswer"
         THEN [kind |-> "return", value |-> <<domain>>, exc |-> NoExc]
         ELSE [kind |-> "return", value |-> <<>>, exc |-> NoExc]

\* resp is what dns.resolver.resolve does; the result is the list returned,
\* or the exception that leaves get_mx_records
get_mx_records(domain, resp) ==
    IF resp.exc = "none"
    THEN [kind |-> "return",
          value |-> [i \in 1..Len(resp.answer) |-> rstripDot(resp.answer[i].exchange)],
          exc |-> NoExc]
    ELSE IF resp.exc \in {"NXDOMAIN", "NoAnswer", "LifetimeTimeout"}
              \/ resp.exc \in ExceptionClasses
         THEN [kind |-> "return", value |-> <<>>, exc |-> NoExc]
         ELSE [kind |-> "raise", value |-> <<>>, exc |-> Exc(resp.exc, "resolver error")]

(***************************************************************************)
(* EmailValidator.validate_smtp: one pass of the loop over mx_servers[:3]. *)
(* A pass ends in "return" (value is the pair returned), "continue" (next  *)
(* host) or "raise" (exc leaves validate_smtp); events are the commands    *)
(* sent, in order; thrown tells whether the try body raised.               *)
(***************************************************************************)
\* mx_servers[:3]
MaxHosts == 3

Pass(k, v, e, ev) ==
    [kind |-> k, value |-> v, exc |-> e, events |-> ev, thrown |-> FALSE]

NoValue == <<FALSE, "">>

\* the f-string of the last branch; message.decode() raises on bytes that
\* are not UTF-8
OtherCode(r, ev) ==
    IF r.utf8
    THEN Pass("return",
              <<FALSE, "SMTP error: " \o ToString(r.code) \o " " \o r.text>>,
              NoExc, ev)
    ELSE Pass("raise", NoValue,
              Exc("UnicodeDecodeError", "'utf-8' codec can't decode byte"), ev)

\* the if/elif chain on the recipient reply code
Classify(r, ev) ==
    IF r.code = 250 THEN Pass("return", <<TRUE, "SMTP validation successful">>, NoExc, ev)
    ELSE IF r.code = 550 THEN Pass("return", <<FALSE, "Mailbox not found">>, NoExc, ev)
    ELSE IF r.code = 553 THEN Pass("return", <<FALSE, "Invalid email format">>, NoExc, ev)
    ELSE OtherCode(r, ev)

Thrown(r, ev) == Pass("raise", NoValue, Exc(r.exc, "smtp failure"), ev)

\* a faulty variant: the session is closed only after the success code; a
\* rejection returns at once
TryBodyQuitOnAccept(host, pos, s) ==
    LET c == <<Event("connect", host, pos, s.connect)>>
        h == c \o <<Event("helo", host, pos, s.helo)>>
        m == h \o <<Event("mail", host, pos, s.mail)>>
        mq == m \o <<Event("quit", host, pos, s.quit)>>
        r == m \o <<Event("rcpt", host, pos, s.rcpt)>>
        rq == r \o <<Event("quit", host, pos, s.quit)>>
    IN  IF ~IsReply(s.connect) THEN Thrown(s.connect, c)
        ELSE IF ~IsReply(s.helo) THEN Thrown(s.helo, h)
        ELSE IF ~IsReply(s.mail) THEN Thrown(s.mail, m)
        ELSE IF s.mail.code # 250
             THEN IF ~IsReply(s.quit) THEN Thrown(s.quit, mq)
                  ELSE Pass("continue", NoValue, NoExc, mq)
        ELSE IF ~IsReply(s.rcpt) THEN Thrown(s.rcpt, r)
        ELSE IF s.rcpt.code # 250 THEN Classify(s.rcpt, r)
        ELSE IF ~IsReply(s.quit) THEN Thrown(s.quit, rq)
        ELSE Classify(s.rcpt, rq)

\* a faulty variant: a host that declines the sender is left without quit
TryBodyNoQuitOnDecline(host, pos, s) ==
    LET c == <<Event("connect", host, pos, s.connect)>>
        h == c \o <<Event("helo", host, pos, s.helo)>>
        m == h \o <<Event("mail", host, pos, s.mail)>>
        r == m \o <<Event("rcpt", host, pos, s.rcpt)>>
        rq == r \o <<Event("quit", host, pos, s.quit)>>
    IN  IF ~IsReply(s.connect) THEN Thrown(s.connect, c)
        ELSE IF ~IsReply(s.helo) THEN Thrown(s.helo, h)
        ELSE IF ~IsReply(s.mail) THEN Thrown(s.mail, m)
        ELSE IF s.mail.code # 250 THEN Pass("continue", NoValue, NoExc, m)
        ELSE IF ~IsReply(s.rcpt) THEN Thrown(s.rcpt, r)
        ELSE IF ~IsReply(s.quit) THEN Thrown(s.quit, rq)
        ELSE Classify(s.rcpt, rq)

\* a faulty variant: a declined sender ends the probe with its own reason
TryBodyDeclineIsFinal(host, pos, s) ==
    LET c == <<Event("connect", host, pos, s.connect)>>
        h == c \o <<Event("helo", host, pos, s.helo)>>
        m == h \o <<Event("mail", host, pos, s.mail)>>
        mq == m \o <<Event("quit", host, pos, s.quit)>>
        r == m \o <<Event("rcpt", host, pos, s.rcpt)>>
        rq == r \o <<Event("quit", host, pos, s.quit)>>
    IN  IF ~IsReply(s.connect) THEN Thrown(s.connect, c)
        ELSE IF ~IsReply(s.helo) THEN Thrown(s.helo, h)
        ELSE IF ~IsReply(s.mail) THEN Thrown(s.mail, m)
        ELSE IF s.mail.code # 250
             THEN IF ~IsReply(s.quit) THEN Thrown(s.quit, mq)
                  ELSE Pass("return", <<FALSE, "Sender rejected">>, NoExc, mq)
        ELSE IF ~IsReply(s.rcpt) THEN Thrown(s.rcpt, r)
        ELSE IF ~IsReply(s.quit) THEN Thrown(s.quit, rq)
        ELSE Classify(s.rcpt, rq)

\* the body of the try statement against a host that behaves as session s
TryBody(host, pos, s) ==
    LET c == <<Event("connect", host, pos, s.connect)>>
        h == c \o <<Event("helo", host, pos, s.helo)>>
        m == h \o <<Event("mail", host, pos, s.mail)>>
        mq == m \o <<Event("quit", host, pos, s.quit)>>
        r == m \o <<Event("rcpt", host, pos, s.rcpt)>>
        rq == r \o <<Event("quit", host, pos, s.quit)>>
    IN  IF ~IsReply(s.connect) THEN Thrown(s.connect, c)
        ELSE IF ~IsReply(s.helo) THEN Thrown(s.helo, h)
        ELSE IF ~IsReply(s.mail) THEN Thrown(s.mail, m)
        ELSE IF s.mail.code # 250
             THEN IF ~IsReply(s.quit) THEN Thrown(s.quit, mq)
                  ELSE Pass("continue", NoValue, NoExc, mq)
        ELSE IF ~IsReply(s.rcpt) THEN Thrown(s.rcpt, r)
        ELSE IF ~IsReply(s.quit) THEN Thrown(s.quit, rq)
        ELSE Classify(s.rcpt, rq)

\* the except clauses as written for a module that defines every class
\* they name
ExceptClausesAllDefined(e, ev) ==
    IF e.type = "SMTPConnectError" THEN Pass("continue", NoValue, NoExc, ev)
    ELSE IF e.type = "SMTPTimeoutError" THEN Pass("continue", NoValue, NoExc, ev)
    ELSE IF e.type = "SMTPRecipientsRefused"
         THEN Pass("return", <<FALSE, "Email rejected by server">>, NoExc, ev)
    ELSE IF e.type = "SMTPServerDisconnected" THEN Pass("continue", NoValue, NoExc, ev)
    ELSE Pass("continue", NoValue, NoExc, ev)

\* the except clauses, tried in order for an exception e of the try body;
\* a clause is matched by evaluating smtplib.<class> first, and smtplib
\* defines no SMTPTimeoutError
ExceptClauses(e, ev) ==
    IF e.type = "SMTPConnectError" THEN Pass("continue", NoValue, NoExc, ev)
    ELSE IF "SMTPTimeoutError" \notin SmtplibExceptions
         THEN Pass("raise", NoValue, MissingAttribute("SMTPTimeoutError"), ev)
    ELSE IF e.type = "SMTPTimeoutError" THEN Pass("continue", NoValue, NoExc, ev)
    ELSE IF e.type = "SMTPRecipientsRefused"
         THEN Pass("return", <<FALSE, "Email rejected by server">>, NoExc, ev)
    ELSE IF e.type = "SMTPServerDisconnected" THEN Pass("continue", NoValue, NoExc, ev)
    ELSE Pass("continue", NoValue, NoExc, ev)

\* one pass of the for loop: try body, then the except clauses
LoopPass(host, pos, s) ==
    LET b == TryBody(host, pos, s)
    IN  IF b.kind = "raise"
        THEN [ExceptClauses(b.exc, b.events) EXCEPT !.thrown = TRUE]
        ELSE b

\* a faulty variant: the slice left out, the loop visits every host
FirstHostsAll(mx_servers) == mx_servers

\* the hosts the loop visits
FirstHosts(mx_servers) ==
    SubSeq(mx_servers, 1, IF Len(mx_servers) < MaxHosts THEN Len(mx_servers) ELSE MaxHosts)

\* the return after the loop
Exhausted == <<FALSE, "Could not connect to any MX server">>

(***************************************************************************)
(* EmailValidator.validate_single_email                                    *)
(***************************************************************************)
Outcome(email, domain, status, reason) == <<email, domain, status, reason>>

NoOutcome == Outcome(<<>>, <<>>, "", "")

Ret(k, v, e) == [kind |-> k, value |-> v, exc |-> e]

\* a faulty variant: the domain taken with partition('@'), which raises nothing
ProloguePartition(raw) ==
    LET email == lower(strip(raw))
        parts == split(email)
        domain == IF Len(parts) < 2 THEN <<>> ELSE parts[2]
    IN  IF ~is_valid_email_syntax(email)
        THEN Ret("return", Outcome(email, domain, "Invalid", "Invalid email syntax"), NoExc)
        ELSE Ret("go", Outcome(email, domain, "", ""), NoExc)

\* a faulty variant: the syntax check left out
PrologueNoSyntax(raw) ==
    LET email == lower(strip(raw))
        parts == split(email)
    IN  IF Len(parts) < 2
        THEN Ret("return", Outcome(email, <<>>, "Invalid", "Invalid email format"), NoExc)
        ELSE Ret("go", Outcome(email, parts[2], "", ""), NoExc)

\* a faulty variant: the domain taken as the last piece, split('@')[-1],
\* which is there for every string
PrologueLastPiece(raw) ==
    LET email == lower(strip(raw))
        parts == split(email)
    IN  IF ~is_valid_email_syntax(email)
        THEN Ret("return", Outcome(email, parts[Len(parts)], "Invalid", "Invalid email syntax"), NoExc)
        ELSE Ret("go", Outcome(email, parts[Len(parts)], "", ""), NoExc)

\* a faulty variant: the candidate is trimmed but its case is kept
PrologueNoLower(raw) ==
    LET email == strip(raw)
        parts == split(email)
    IN  IF Len(parts) < 2
        THEN Ret("return", Outcome(email, <<>>, "Invalid", "Invalid email format"), NoExc)
        ELSE IF ~is_valid_email_syntax(email)
             THEN Ret("return", Outcome(email, parts[2], "Invalid", "Invalid email syntax"), NoExc)
             ELSE Ret("go", Outcome(email, parts[2], "", ""), NoExc)

\* a faulty variant: the domain is all that follows the first '@',
\* split('@', 1)[1]
PrologueFirstAt(raw) ==
    LET email == lower(strip(raw))
        at == AtPositions(email)
        domain == IF at = {} THEN <<>> ELSE SubSeq(email, Min(at) + 1, Len(email))
    IN  IF at = {}
        THEN Ret("return", Outcome(email, <<>>, "Invalid", "Invalid email format"), NoExc)
        ELSE IF ~is_valid_email_syntax(email)
             THEN Ret("return", Outcome(email, domain, "Invalid", "Invalid email syntax"), NoExc)
             ELSE Ret("go", Outcome(email, domain, "", ""), NoExc)

\* up to the syntax check: normalise, extract the domain, match the pattern;
\* "go" means the call goes on to the MX lookup
Prologue(raw) ==
    LET email == lower(strip(raw))
        parts == split(email)
    IN  IF Len(parts) < 2
        THEN Ret("return", Outcome(email, <<>>, "Invalid", "Invalid email format"), NoExc)
        ELSE IF ~is_valid_email_syntax(email)
             THEN Ret("return", Outcome(email, parts[2], "Invalid", "Invalid email syntax"), NoExc)
             ELSE Ret("go", Outcome(email, parts[2], "", ""), NoExc)

\* a faulty variant: the handler left out, the exception leaves the call
OuterHandlerMissing(email, domain, e) == Ret("raise", NoOutcome, e)

\* except Exception as e: around the lookup and the probe
OuterHandler(email, domain, e) ==
    IF e.type \in ExceptionClasses
    THEN Ret("return", Outcome(email, domain, "Error", "Validation error: " \o e.msg), NoExc)
    ELSE Ret("raise", NoOutcome, e)

\* if not mx_records:
NoMxResult(email, domain) ==
    Ret("return", Outcome(email, domain, "Invalid", "No MX records found"), NoExc)

\* a faulty variant: the message of the probe is kept as the reason in
\* both branches
FromProbeMessage(email, domain, v) ==
    Ret("return", Outcome(email, domain, IF v[1] THEN "Valid" ELSE "Invalid", v[2]), NoExc)

\* is_valid, error_message = validate_smtp(...) and the if/else after it
FromProbe(email, domain, v) ==
    IF v[1]
    THEN Ret("return", Outcome(email, domain, "Valid", ""), NoExc)
    ELSE Ret("return", Outcome(email, domain, "Invalid", v[2]), NoExc)

RECURSIVE SeqsUpTo(_, _)
\* the sequences over S of length at most n
SeqsUpTo(S, n) ==
    IF n = 0 THEN {<<>>}
    ELSE LET shorter == SeqsUpTo(S, n - 1)
         IN  shorter \cup {Append(q, x) : q \in {t \in shorter : Len(t) = n - 1}, x \in S}

(***************************************************************************)
(* CSVProcessor.extract_emails (src/csv_processor.py).  A DataFrame is a   *)
(* function from its column names to columns; a column is a sequence of    *)
(* cells; a cell is NaN or a string.                                       *)
(***************************************************************************)
NaN == [nan |-> TRUE, str |-> <<>>]

Str(s) == [nan |-> FALSE, str |-> s]

\* what a cell of the email column can hold: nothing, addresses with blanks
\* and capitals, text that is no address, the word NaN, a blank
CellValues ==
    {NaN,
     Str(<<" ", "A", "@", "b", ".", "c", "c">>),
     Str(<<"a", "@", "b", ".", "c", "c">>),
     Str(<<"B", "@", "b", ".", "c", "c", " ">>),
     Str(<<"a", "b">>),
     Str(<<"N", "a", "N">>),
     Str(<<" ">>)}

\* the columns of up to MaxRows cells
Columns == SeqsUpTo(CellValues, MaxRows)

\* the frames: an email column alone or next to a column of names
Frames ==
    {[c \in {"email"} |-> col] : col \in Columns} \cup
    {[c \in {"email", "name"} |->
        IF c = "email" THEN col ELSE [k \in DOMAIN col |-> Str(<<"a", "b">>)]] :
        col \in Columns}

\* the column names a caller may ask for
ColumnNames == {"email", "name", "Email"}

\* Series.dropna()
dropna(series) == LET Present(cell) == ~cell.nan IN SelectSeq(series, Present)

\* CSVProcessor.is_valid_email_format
is_valid_email_format(email) == email_regex(email)

RECURSIVE fromkeys_last(_)
\* a faulty variant: of equal keys the last one is kept
fromkeys_last(q) ==
    IF q = <<>> THEN <<>>
    ELSE LET rest == fromkeys_last(Tail(q))
         IN  IF \E k \in DOMAIN rest : rest[k] = Head(q) THEN rest ELSE <<Head(q)>> \o rest

RECURSIVE fromkeys(_)
\* list(dict.fromkeys(q)): of equal keys the first one is kept
fromkeys(q) ==
    IF q = <<>> THEN <<>>
    ELSE LET front == fromkeys(SubSeq(q, 1, Len(q) - 1))
             last == q[Len(q)]
         IN  IF \E k \in DOMAIN front : front[k] = last THEN front ELSE Append(front, last)

extract_emails(df, email_column) ==
    IF email_column \notin DOMAIN df
    THEN Ret("raise", <<>>,
             Exc("ValueError", "Column '" \o email_column \o "' not found in the CSV file"))
    ELSE LET email_series == dropna(df[email_column])
             cleaned == [k \in DOMAIN email_series |-> lower(strip(email_series[k].str))]
             NotEmpty(e) == e # <<>>
             NotNan(e) == e # <<"n", "a", "n">>
             valid_emails ==
                SelectSeq(SelectSeq(SelectSeq(cleaned, NotEmpty), NotNan), is_valid_email_format)
         IN  Ret("return", fromkeys(valid_emails), NoExc)

\* extract_emails is not called
NoCsv == [pc |-> "none", df |-> <<>>, email_column |-> "", ret |-> Ret("none", <<>>, NoExc)]

\* the value None, where a DataFrame may stand
None == [frame |-> FALSE, rows |-> <<>>]

\* pd.DataFrame(results)
DataFrame(rows) == [frame |-> TRUE, rows |-> rows]

\* no tab with percentages is on the screen
NothingShown == [tab |-> "", raised |-> "none", valid |-> 0, invalid |-> 0, error |-> 0]

\* the script is not in a validation run
NoRun == [pc |-> "idle", stored_for |-> <<>>, shown |-> NothingShown, checked |-> 0]

\* main: the defaults of the session state, before any interaction
InitSession ==
    /\ session_state = [validation_results |-> None, processing |-> FALSE]
    /\ script = NoRun

(***************************************************************************)
(* validate_single_email as one function: the outcome for a raw input      *)
(* when the resolver and the hosts answer as they did in the traffic w.    *)
(***************************************************************************)
IsResolve(e) == e.cmd = "resolve"

\* what the resolver did, if it was asked
ResolverSaid(w) ==
    IF \E k \in DOMAIN w : IsResolve(w[k])
    THEN LET e == w[CHOOSE k \in DOMAIN w : IsResolve(w[k])]
         IN  [exc |-> e.exc, answer |-> e.list]
    ELSE [exc |-> NotReached.exc, answer |-> <<>>]

\* what the host at position p did when it was sent cmd
HostSaid(w, p, cmd) ==
    IF \E k \in DOMAIN w : w[k].cmd = cmd /\ w[k].pos = p
    THEN LET e == w[CHOOSE k \in DOMAIN w : w[k].cmd = cmd /\ w[k].pos = p]
         IN  [exc |-> e.exc, code |-> e.code, text |-> e.text, utf8 |-> e.utf8]
    ELSE NotReached

SessionAt(w, p) ==
    Session(HostSaid(w, p, "connect"), HostSaid(w, p, "helo"), HostSaid(w, p, "mail"),
            HostSaid(w, p, "rcpt"), HostSaid(w, p, "quit"))

RECURSIVE validate_smtp(_, _, _)
\* the loop of validate_smtp from the host at position idx on, and the
\* return after it
validate_smtp(hosts, idx, w) ==
    IF idx > Len(hosts)
    THEN Ret("return", Exhausted, NoExc)
    ELSE LET r == LoopPass(hosts[idx], idx, SessionAt(w, idx))
         IN  IF r.kind = "continue"
             THEN validate_smtp(hosts, idx + 1, w)
             ELSE Ret(r.kind, r.value, r.exc)

validate_single_email(raw, w) ==
    LET p == Prologue(raw)
    IN  IF p.kind # "go" THEN p
        ELSE LET email == p.value[1]
                 domain == p.value[2]
                 mx == get_mx_records(domain, ResolverSaid(w))
             IN  IF mx.kind = "raise" THEN OuterHandler(email, domain, mx.exc)
                 ELSE IF mx.value = <<>> THEN NoMxResult(email, domain)
                 ELSE LET v == validate_smtp(FirstHosts(mx.value), 1, w)
                      IN  IF v.kind = "raise"
                          THEN OuterHandler(email, domain, v.exc)
                          ELSE FromProbe(email, domain, v.value)

(***************************************************************************)
(* State of the batch.                                                     *)
(***************************************************************************)
Tasks == 1..Len(emails)

IdleFrame == [pc |-> "idle", email |-> <<>>, domain |-> <<>>, mx_records |-> <<>>, idx |-> 0]

Future(st, r) == [state |-> st, kind |-> r.kind, result |-> r.value, exc |-> r.exc]

NewFuture == Future("UNSUBMITTED", Ret("none", NoOutcome, NoExc))

Running == {i \in Tasks : fut[i].state = "RUNNING"}

Finished == {i \in Tasks : fut[i].state = "FINISHED"}

\* the addresses a batch is made of
Candidates ==
    {<<"a", "@", "b", ".", "c", "c">>,
     <<" ", "A", "@", "b", ".", "c", "c">>,
     <<"a", "b">>}

\* lists of unique candidates
Batches ==
    {b \in SeqsUpTo(Candidates, MaxBatch) :
        \A i \in 1..Len(b) : \A j \in 1..Len(b) : i # j => b[i] # b[j]}

\* every raw input up to MaxLen characters
RawInputs == SeqsUpTo(Alphabet, MaxLen)

\* EmailValidator.__init__: max_workers: int = 5
DefaultWorkers == 5

InitBatch(b, w, t) ==
    /\ emails = b
    /\ max_workers = w
    /\ fut = [i \in 1..Len(b) |-> NewFuture]
    /\ frame = [i \in 1..Len(b) |-> IdleFrame]
    /\ snap = {}
    /\ waiter = <<>>
    /\ completed = <<>>
    /\ yielded = <<>>
    /\ gen = "submit"
    /\ traced = t
    /\ wire = [i \in 1..Len(b) |-> <<>>]
    /\ fault = [i \in 1..Len(b) |-> "none"]

\* the DNS and the mail hosts.  In a free world they may answer the same
\* question differently each time they are asked; in a fixed world the
\* answer to a question, once given, is the answer to it from then on.
FreeWorld == [fixed |-> FALSE, dns |-> {}, smtp |-> {}]

FixedWorld == [fixed |-> TRUE, dns |-> {}, smtp |-> {}]

\* the answers the world can give to question q, all being those possible
Answer(memo, q, all) ==
    IF \E m \in memo : m.q = q THEN {m.a : m \in {n \in memo : n.q = q}} ELSE all

\* a fixed world remembers that it answered q with a
Learn(memo, q, a) == IF world.fixed THEN memo \cup {[q |-> q, a |-> a]} ELSE memo

\* a batch of unique candidates on a pool of 1..MaxPool workers
Init == \E b \in Batches : \E w \in 1..MaxPool : InitBatch(b, w, {}) /\ world = FreeWorld /\ csv = NoCsv /\ InitSession

\* one raw input, validated through the batch interface, traffic recorded
InitUnit ==
    \E r \in RawInputs :
        InitBatch(<<r>>, DefaultWorkers, {1}) /\ world = FreeWorld /\ csv = NoCsv /\ InitSession

\* a batch of unique candidates, the traffic of its first call recorded
InitTraced ==
    \E b \in Batches : \E w \in 1..MaxPool :
        InitBatch(b, w, {1}) /\ world = FreeWorld /\ csv = NoCsv /\ InitSession

\* raw inputs with capitals and blanks around them, and one without
PairInputs ==
    Candidates \cup
    {<<" ", "A", "@", " ">>, <<"A", "@", "B", " ">>, <<" ", "A", "b">>}

\* a raw input and its normalized form, validated in one fixed world
InitPair ==
    \E r \in PairInputs :
        /\ InitBatch(<<r, lower(strip(r))>>, DefaultWorkers, {1, 2})
        /\ world = FixedWorld
        /\ csv = NoCsv /\ InitSession

(***************************************************************************)
(* validate_emails_batch: the generator.                                   *)
(***************************************************************************)
\* executor.submit for the next email of the list
Submit ==
    /\ gen = "submit"
    /\ \E i \in Tasks :
        /\ fut[i].state = "UNSUBMITTED"
        /\ \A j \in 1..(i - 1) : fut[j].state # "UNSUBMITTED"
        /\ fut' = [fut EXCEPT ![i].state = "PENDING"]
    /\ UNCHANGED <<emails, max_workers, frame, snap, waiter, completed, yielded,
                   gen, traced, wire, fault, world, csv, session_state, script>>

\* a faulty variant: only the futures that finish from now on are waited for
AsCompletedForgetful ==
    /\ gen = "submit"
    /\ \A i \in Tasks : fut[i].state # "UNSUBMITTED"
    /\ snap' = {}
    /\ gen' = "yield"
    /\ UNCHANGED <<emails, max_workers, fut, frame, waiter, completed, yielded,
                   traced, wire, fault, world, csv, session_state, script>>

\* as_completed starts: the futures already finished are set aside and
\* waiters are installed on the others
AsCompleted ==
    /\ gen = "submit"
    /\ \A i \in Tasks : fut[i].state # "UNSUBMITTED"
    /\ snap' = Finished
    /\ gen' = "yield"
    /\ UNCHANGED <<emails, max_workers, fut, frame, waiter, completed, yielded,
                   traced, wire, fault, world, csv, session_state, script>>

\* the try/except around future.result()
YieldValue(i) ==
    IF fut[i].kind = "return"
    THEN fut[i].result
    ELSE Outcome(emails[i],
                 IF AtPositions(emails[i]) # {} THEN split(emails[i])[2] ELSE <<>>,
                 "Error", "Processing error: " \o fut[i].exc.msg)

\* the calls the generator has yielded an outcome for
YieldedTasks == {yielded[k].task : k \in DOMAIN yielded}

\* a faulty variant: the futures that finished while the generator waited
\* are taken newest first
YieldNewestFirst ==
    /\ gen = "yield"
    /\ \/ /\ snap \ YieldedTasks # {}
          /\ \E i \in snap \ YieldedTasks :
                yielded' = Append(yielded, [task |-> i, outcome |-> YieldValue(i)])
          /\ UNCHANGED waiter
       \/ /\ snap \subseteq YieldedTasks
          /\ waiter # <<>>
          /\ yielded' = Append(yielded, [task |-> waiter[Len(waiter)],
                                         outcome |-> YieldValue(waiter[Len(waiter)])])
          /\ waiter' = SubSeq(waiter, 1, Len(waiter) - 1)
    /\ UNCHANGED <<emails, max_workers, fut, frame, snap, completed, gen, traced, wire, fault,
                   world, csv, session_state, script>>

\* the next future of as_completed: those of the snapshot in the order of
\* a set, then the others in the order they finished
Yield ==
    /\ gen = "yield"
    /\ \/ /\ snap \ YieldedTasks # {}
          /\ \E i \in snap \ YieldedTasks :
                yielded' = Append(yielded, [task |-> i, outcome |-> YieldValue(i)])
          /\ UNCHANGED waiter
       \/ /\ snap \subseteq YieldedTasks
          /\ waiter # <<>>
          /\ yielded' = Append(yielded, [task |-> Head(waiter), outcome |-> YieldValue(Head(waiter))])
          /\ waiter' = Tail(waiter)
    /\ UNCHANGED <<emails, max_workers, fut, frame, snap, completed, gen, traced, wire, fault,
                   world, csv, session_state, script>>

\* no future is pending any more: the with block shuts the executor down
\* and the generator is exhausted
Close ==
    /\ gen = "yield"
    /\ snap \subseteq YieldedTasks
    /\ waiter = <<>>
    /\ Finished = Tasks
    /\ gen' = "done"
    /\ UNCHANGED <<emails, max_workers, fut, frame, snap, waiter, completed, yielded,
                   traced, wire, fault, world, csv, session_state, script>>

(***************************************************************************)
(* The worker threads: each runs validate_single_email for one future.     *)
(* A call blocks at the MX lookup and at each conversation with a host;    *)
(* these are the points where the threads interleave.                      *)
(***************************************************************************)
Record(i, events) == [wire EXCEPT ![i] = IF i \in traced THEN @ \o events ELSE @]

\* the call of future i ends with r: the future is set, the frame is gone,
\* the waiter of as_completed, once installed, is told
Finish(i, r) ==
    /\ fut' = [fut EXCEPT ![i] = Future("FINISHED", r)]
    /\ frame' = [frame EXCEPT ![i] = IdleFrame]
    /\ completed' = Append(completed, i)
    /\ waiter' = IF gen = "yield" THEN Append(waiter, i) ELSE waiter

\* a faulty variant: the call is submitted as a closure over the loop
\* variable, so every call validates the last email of the list
TaskStartLateBinding(i) ==
    /\ i \in Tasks
    /\ fut[i].state = "PENDING"
    /\ \A j \in 1..(i - 1) : fut[j].state # "PENDING"
    /\ Cardinality(Running) < max_workers
    /\ LET p == Prologue(emails[Len(emails)])
       IN  IF p.kind = "go"
           THEN /\ fut' = [fut EXCEPT ![i].state = "RUNNING"]
                /\ frame' = [frame EXCEPT ![i] =
                        [pc |-> "resolve", email |-> p.value[1], domain |-> p.value[2],
                         mx_records |-> <<>>, idx |-> 0]]
                /\ UNCHANGED <<completed, waiter>>
           ELSE Finish(i, p)
    /\ UNCHANGED <<emails, max_workers, snap, yielded, gen, traced, wire, fault,
                   world, csv, session_state, script>>

\* a faulty variant: a thread is started for every pending future, whatever
\* the number of calls that are running
TaskStartUnbounded(i) ==
    /\ i \in Tasks
    /\ fut[i].state = "PENDING"
    /\ \A j \in 1..(i - 1) : fut[j].state # "PENDING"
    /\ LET p == Prologue(emails[i])
       IN  IF p.kind = "go"
           THEN /\ fut' = [fut EXCEPT ![i].state = "RUNNING"]
                /\ frame' = [frame EXCEPT ![i] =
                        [pc |-> "resolve", email |-> p.value[1], domain |-> p.value[2],
                         mx_records |-> <<>>, idx |-> 0]]
                /\ UNCHANGED <<completed, waiter>>
           ELSE Finish(i, p)
    /\ UNCHANGED <<emails, max_workers, snap, yielded, gen, traced, wire, fault,
                   world, csv, session_state, script>>

\* a free worker takes the oldest pending future off the queue and runs
\* the call up to the MX lookup
TaskStart(i) ==
    /\ i \in Tasks
    /\ fut[i].state = "PENDING"
    /\ \A j \in 1..(i - 1) : fut[j].state # "PENDING"
    /\ Cardinality(Running) < max_workers
    /\ LET p == Prologue(emails[i])
       IN  IF p.kind = "go"
           THEN /\ fut' = [fut EXCEPT ![i].state = "RUNNING"]
                /\ frame' = [frame EXCEPT ![i] =
                        [pc |-> "resolve", email |-> p.value[1], domain |-> p.value[2],
                         mx_records |-> <<>>, idx |-> 0]]
                /\ UNCHANGED <<completed, waiter>>
           ELSE Finish(i, p)
    /\ UNCHANGED <<emails, max_workers, snap, yielded, gen, traced, wire, fault,
                   world, csv, session_state, script>>

ResolveEvents(domain, resp, r) ==
    <<[cmd |-> "resolve", host |-> domain, pos |-> 0, exc |-> resp.exc,
       code |-> Len(resp.answer), text |-> "", utf8 |-> TRUE, list |-> resp.answer],
      [cmd |-> IF r.kind = "return" THEN "mx_return" ELSE "mx_raise", host |-> domain,
       pos |-> 0, exc |-> r.exc.type, code |-> Len(r.value), text |-> "", utf8 |-> TRUE,
       list |-> r.value]>>

\* what the lookup of call i can come to: the result of get_mx_records,
\* whether the resolver raised, and the events when the call is traced
Lookups(i, domain) ==
    {LET r == get_mx_records(domain, resp)
     IN  [kind |-> r.kind, value |-> r.value, exc |-> r.exc,
          thrown |-> resp.exc # "none",
          events |-> IF i \in traced THEN ResolveEvents(domain, resp, r) ELSE <<>>] :
        resp \in DnsResponses}

\* mx_records = self.get_mx_records(domain) and the test that follows
TaskResolve(i) ==
    /\ i \in Tasks
    /\ frame[i].pc = "resolve"
    /\ \E r \in Answer(world.dns, frame[i].domain, Lookups(i, frame[i].domain)) :
        LET f == frame[i]
        IN  /\ wire' = Record(i, r.events)
            /\ world' = [world EXCEPT !.dns = Learn(@, f.domain, r)]
            /\ fault' = [fault EXCEPT ![i] =
                    IF r.kind = "raise" THEN "escaped"
                    ELSE IF r.thrown THEN "absorbed" ELSE @]
            /\ IF r.kind = "raise"
               THEN Finish(i, OuterHandler(f.email, f.domain, r.exc))
               ELSE IF r.value = <<>>
                    THEN Finish(i, NoMxResult(f.email, f.domain))
                    ELSE /\ frame' = [frame EXCEPT ![i].pc = "probe",
                                                   ![i].mx_records = r.value,
                                                   ![i].idx = 1]
                         /\ UNCHANGED <<fut, completed, waiter>>
    /\ UNCHANGED <<emails, max_workers, snap, yielded, gen, traced, csv, session_state, script>>

\* what one pass of the loop of call i can come to against a host, over
\* every way the host can behave; the events are kept when the call is traced
Passes(i, host, pos) ==
    {LET r == LoopPass(host, pos, s)
     IN  IF i \in traced THEN r ELSE [r EXCEPT !.events = <<>>] :
        s \in Sessions}

\* one pass of the loop of validate_smtp, against the host at position idx
TaskAttempt(i) ==
    /\ i \in Tasks
    /\ frame[i].pc = "probe"
    /\ LET f == frame[i]
           hosts == FirstHosts(f.mx_records)
           q == <<hosts[f.idx], f.email>>
       IN  \E r \in Answer(world.smtp, q, Passes(i, hosts[f.idx], f.idx)) :
            /\ wire' = Record(i, r.events)
            /\ world' = [world EXCEPT !.smtp = Learn(@, q, r)]
            /\ fault' = [fault EXCEPT ![i] =
                    IF r.kind = "raise" THEN "escaped"
                    ELSE IF r.thrown THEN "absorbed" ELSE @]
            /\ CASE r.kind = "raise" ->
                        Finish(i, OuterHandler(f.email, f.domain, r.exc))
                 [] r.kind = "return" ->
                        Finish(i, FromProbe(f.email, f.domain, r.value))
                 [] r.kind = "continue" /\ f.idx < Len(hosts) ->
                        /\ frame' = [frame EXCEPT ![i].idx = f.idx + 1]
                        /\ UNCHANGED <<fut, completed, waiter>>
                 [] r.kind = "continue" /\ f.idx >= Len(hosts) ->
                        Finish(i, FromProbe(f.email, f.domain, Exhausted))
    /\ UNCHANGED <<emails, max_workers, snap, yielded, gen, traced, csv, session_state, script>>

Next ==
    \/ Submit
    \/ AsCompleted
    \/ Yield
    \/ Close
    \/ \E i \in 1..(MaxBatch + 1) : TaskStart(i)
    \/ \E i \in 1..(MaxBatch + 1) : TaskResolve(i)
    \/ \E i \in 1..(MaxBatch + 1) : TaskAttempt(i)

Spec == Init /\ [][Next]_vars

SpecUnit == InitUnit /\ [][Next]_vars

\* some thread that can take a step does take one: the workers are
\* scheduled, the consumer keeps asking for the next outcome, and every
\* lookup and every SMTP step returns or fails.  This asks less than
\* fairness to each worker, which implies it.
FairSpec == Init /\ [][Next]_vars /\ WF_vars(Next)

SpecPair == InitPair /\ [][Next]_vars

SpecTraced == InitTraced /\ [][Next]_vars

(***************************************************************************)
(* A call of extract_emails on a frame.                                    *)
(***************************************************************************)
InitCsv ==
    /\ InitBatch(<<>>, DefaultWorkers, {})
    /\ world = FreeWorld
    /\ InitSession
    /\ \E df \in Frames : \E c \in ColumnNames :
            csv = [pc |-> "call", df |-> df, email_column |-> c, ret |-> Ret("none", <<>>, NoExc)]

ExtractEmails ==
    /\ csv.pc = "call"
    /\ csv' = [csv EXCEPT !.pc = "done", !.ret = extract_emails(csv.df, csv.email_column)]
    /\ UNCHANGED <<emails, max_workers, fut, frame, snap, waiter, completed, yielded,
                   gen, traced, wire, fault, world, session_state, script>>

NextCsv == ExtractEmails

SpecCsv == InitCsv /\ [][NextCsv]_vars

(***************************************************************************)
(* The dashboard (src/app.py, main).  Streamlit runs main from the top on  *)
(* every interaction; st.session_state outlives the runs.  A run that      *)
(* validates is followed step by step, because it lasts as long as the     *)
(* batch; every other run is one step.  st.rerun, and an interaction that  *)
(* arrives while a run is under way, end the run with a script-control     *)
(* exception, which is not an Exception and passes the except clause of    *)
(* main.                                                                   *)
(***************************************************************************)
\* the files a user uploads: no address at all, one address twice, two
\* addresses around an empty cell; alone or next to a column of names
Uploads ==
    {f \in Frames :
        f["email"] \in
            {<<NaN, Str(<<"a", "b">>)>>,
             <<Str(<<" ", "A", "@", "b", ".", "c", "c">>), Str(<<"a", "@", "b", ".", "c", "c">>)>>,
             <<Str(<<"a", "@", "b", ".", "c", "c">>), NaN, Str(<<"B", "@", "b", ".", "c", "c", " ">>)>>}}

\* results.append({...}) for an outcome the generator yielded
Row(o) == [Email |-> o[1], Domain |-> o[2], Status |-> o[3], Error |-> o[4]]

\* the list results after the passes of the loop made so far
results == [k \in DOMAIN yielded |-> Row(yielded[k].outcome)]

\* len(results_df[results_df['Status'] == status])
CountStatus(results_df, status) ==
    Cardinality({k \in DOMAIN results_df.rows : results_df.rows[k].Status = status})

\* n / total * 100 as the format .1f prints it, in tenths of a percent
Percent(n, total) == (n * 2000 + total) \div (2 * total)

\* the tabs whose percentages divide by the total without a test
MetricTabs == {"Metrics", "Mood Ring"}

\* what the tab shows for the stored results, or the exception that ends
\* its rendering: the share of valid addresses is computed behind a test
\* of the total, the two other shares are not
Shown(tab, results_df) ==
    LET total_emails == Len(results_df.rows)
    IN  IF total_emails = 0
        THEN [tab |-> tab, raised |-> "ZeroDivisionError", valid |-> 0, invalid |-> 0, error |-> 0]
        ELSE [tab |-> tab, raised |-> "none",
              valid |-> Percent(CountStatus(results_df, "Valid"), total_emails),
              invalid |-> Percent(CountStatus(results_df, "Invalid"), total_emails),
              error |-> Percent(CountStatus(results_df, "Error"), total_emails)]

\* "Start Validation" is clicked on a file and a column of it: the run up
\* to the first pass of the loop
StartValidation ==
    /\ script.pc = "idle"
    /\ ~session_state.processing
    /\ \E df \in Uploads : \E email_column \in DOMAIN df :
        LET found == extract_emails(df, email_column)
        IN  /\ script.checked + Len(found.value) <= MaxChecked
            /\ IF found.kind = "raise" \/ found.value = <<>>
               THEN /\ session_state' = [session_state EXCEPT !.processing = FALSE]
                    /\ script' = [script EXCEPT !.shown = NothingShown]
                    /\ UNCHANGED <<emails, max_workers, fut, frame, snap, waiter, completed,
                                   yielded, gen, traced, wire, fault>>
               ELSE /\ session_state' = [session_state EXCEPT !.processing = TRUE]
                    /\ script' = [script EXCEPT !.pc = "loop", !.shown = NothingShown,
                                                !.checked = @ + Len(found.value)]
                    /\ emails' = found.value
                    /\ max_workers' = DefaultWorkers
                    /\ fut' = [i \in DOMAIN found.value |-> NewFuture]
                    /\ frame' = [i \in DOMAIN found.value |-> IdleFrame]
                    /\ snap' = {}
                    /\ waiter' = <<>>
                    /\ completed' = <<>>
                    /\ yielded' = <<>>
                    /\ gen' = "submit"
                    /\ traced' = {}
                    /\ wire' = [i \in DOMAIN found.value |-> <<>>]
                    /\ fault' = [i \in DOMAIN found.value |-> "none"]
    /\ UNCHANGED <<world, csv>>

\* the run is over: its generator and its executor are gone
DropBatch ==
    /\ emails' = <<>>
    /\ max_workers' = DefaultWorkers
    /\ fut' = <<>>
    /\ frame' = <<>>
    /\ snap' = {}
    /\ waiter' = <<>>
    /\ completed' = <<>>
    /\ yielded' = <<>>
    /\ gen' = "submit"
    /\ traced' = {}
    /\ wire' = <<>>
    /\ fault' = <<>>

\* the generator is exhausted: the results are stored and the flag reset
StoreResults ==
    /\ script.pc = "loop"
    /\ gen = "done"
    /\ session_state' = [validation_results |-> DataFrame(results), processing |-> FALSE]
    /\ script' = [script EXCEPT !.pc = "idle", !.stored_for = emails]
    /\ DropBatch
    /\ UNCHANGED <<world, csv>>

\* a call inside the try statement raises an Exception: the except clause
\* of main resets the flag
RunFails ==
    /\ script.pc = "loop"
    /\ session_state' = [session_state EXCEPT !.processing = FALSE]
    /\ script' = [script EXCEPT !.pc = "idle"]
    /\ DropBatch
    /\ UNCHANGED <<world, csv>>

\* the user touches a widget while the run is under way: the next call of
\* a Streamlit command in the loop raises the script-control exception,
\* no clause of main catches it, and the run is over
RunInterrupted ==
    /\ script.pc = "loop"
    /\ script' = [script EXCEPT !.pc = "idle"]
    /\ DropBatch
    /\ UNCHANGED <<world, csv, session_state>>

\* "Clear Results"
ClearResults ==
    /\ script.pc = "idle"
    /\ session_state.validation_results # None
    /\ session_state' = [session_state EXCEPT !.validation_results = None]
    /\ script' = [script EXCEPT !.shown = NothingShown]
    /\ UNCHANGED <<emails, max_workers, fut, frame, snap, waiter, completed, yielded,
                   gen, traced, wire, fault, world, csv>>

\* a tab with percentages is opened, which its button allows once there
\* are results, and rendered
ShowMetrics ==
    /\ script.pc = "idle"
    /\ session_state.validation_results # None
    /\ \E tab \in MetricTabs :
            script' = [script EXCEPT !.shown = Shown(tab, session_state.validation_results)]
    /\ UNCHANGED <<emails, max_workers, fut, frame, snap, waiter, completed, yielded,
                   gen, traced, wire, fault, world, csv, session_state>>

\* the batch advances while the loop of main consumes it
Validating == script.pc = "loop" /\ Next

InitApp ==
    /\ InitBatch(<<>>, DefaultWorkers, {})
    /\ world = FreeWorld
    /\ csv = NoCsv /\ InitSession

NextApp ==
    \/ StartValidation
    \/ Validating
    \/ StoreResults
    \/ RunFails
    \/ RunInterrupted
    \/ ClearResults
    \/ ShowMetrics

SpecApp == InitApp /\ [][NextApp]_vars

(***************************************************************************)
(* Vocabulary of the properties.                                           *)
(***************************************************************************)
Status(o) == o[3]

Reason(o) == o[4]

\* the outcome yielded for task i
YieldedFor(i) == yielded[CHOOSE k \in DOMAIN yielded : yielded[k].task = i].outcome

\* trimmed and lower-cased
Normalized(raw) == lower(strip(raw))

\* the text after the first '@' of an address that has one
AfterAt(e) == SubSeq(e, Min(AtPositions(e)) + 1, Len(e))

SmtpCommands == {"connect", "helo", "mail", "rcpt", "quit"}

\* the events of w that satisfy Test
Where(w, Test(_)) == {k \in DOMAIN w : Test(w[k])}

IsConnect(e) == e.cmd = "connect"

IsLookup(e) == e.cmd = "resolve"

\* the resolver found no mail exchanger
LookupFailed(e) == e.cmd = "resolve" /\ e.exc # "none"

\* the recipient command was answered with a reply code
RcptReplied(e) == e.cmd = "rcpt" /\ e.exc = "none"

(***************************************************************************)
(* Properties of the batch.                                                *)
(***************************************************************************)
\* C1: no candidate is ever yielded twice, and when the generator is
\* exhausted it has yielded exactly one outcome for each of the N
\* candidates, whatever the completion order and the outcomes.
C1_Cardinality ==
    /\ \A m \in DOMAIN yielded : \A n \in DOMAIN yielded :
            m # n => yielded[m].task # yielded[n].task
    /\ YieldedTasks \subseteq Tasks
    /\ gen = "done" => Len(yielded) = Len(emails) /\ YieldedTasks = Tasks

\* a consumed batch of two whose second call finished first and ended in Error
C1_Witness ==
    /\ gen = "done"
    /\ Len(emails) = 2
    /\ completed = <<2, 1>>
    /\ Status(YieldedFor(2)) = "Error"
    /\ Status(YieldedFor(1)) = "Invalid"

\* C2: under fair scheduling every submitted candidate's outcome is
\* eventually yielded and the generator terminates; the loop of a probe
\* never goes beyond its third host.
C2_Liveness ==
    /\ <>(gen = "done" /\ YieldedTasks = Tasks)
    /\ [](\A i \in Tasks : frame[i].idx <= MaxHosts)

\* a consumed batch of two in which a probe ran out of hosts
C2_Witness ==
    /\ gen = "done"
    /\ Len(emails) = 2
    /\ \E i \in Tasks : Reason(YieldedFor(i)) = "Could not connect to any MX server"

\* C3 as claimed: any exception raised inside a candidate's unit of work
\* gives that candidate status Error with a non-empty reason.
C3_AnyFaultIsError ==
    \A i \in Tasks :
        fut[i].state = "FINISHED" /\ fault[i] # "none"
            => Status(fut[i].result) = "Error" /\ Reason(fut[i].result) # ""

\* C3 amended: an exception that leaves the resolver or the probe is caught
\* in validate_single_email, which returns Error with a non-empty reason
\* for that candidate; an exception the resolver or the probe handles
\* itself gives no Error; Error comes from the candidate's own exception
\* only; and the exhausted generator has yielded every candidate's outcome.
C3_EscapedFaultIsError ==
    /\ \A i \in Tasks :
        fut[i].state = "FINISHED" =>
            /\ fut[i].kind = "return"
            /\ fault[i] = "escaped" =>
                    /\ Status(fut[i].result) = "Error"
                    /\ Reason(fut[i].result) # ""
                    /\ fut[i].result[1] = Normalized(emails[i])
            /\ fault[i] # "escaped" => Status(fut[i].result) \in {"Valid", "Invalid"}
    /\ \A k \in DOMAIN yielded :
            yielded[k].outcome = fut[yielded[k].task].result
    /\ gen = "done" => YieldedTasks = Tasks

\* a consumed batch of two: one call ended by an escaped exception, the
\* other, finished after it, came out Valid
C3_Witness ==
    /\ gen = "done"
    /\ Len(emails) = 2
    /\ \E i \in Tasks : \E j \in Tasks :
        /\ fault[i] = "escaped"
        /\ Status(YieldedFor(i)) = "Error"
        /\ completed = <<i, j>>
        /\ Status(YieldedFor(j)) = "Valid"

(***************************************************************************)
(* Properties of one validation.                                           *)
(***************************************************************************)
\* C4: a raw input without '@' comes out with domain "" and status Invalid,
\* reason "Invalid email format".
C4_NoAtSign ==
    /\ \A i \in Tasks :
        fut[i].state = "FINISHED" /\ AtPositions(emails[i]) = {} =>
            /\ fut[i].kind = "return"
            /\ fut[i].result[2] = <<>>
            /\ Status(fut[i].result) = "Invalid"
            /\ Reason(fut[i].result) = "Invalid email format"
    /\ \A k \in DOMAIN yielded :
        AtPositions(emails[yielded[k].task]) = {} =>
            yielded[k].outcome =
                Outcome(Normalized(emails[yielded[k].task]), <<>>, "Invalid",
                        "Invalid email format")

\* the input " A." has been validated and its outcome yielded
C4_Witness ==
    /\ gen = "done"
    /\ emails = << <<" ", "A", ".">> >>
    /\ yielded = << [task |-> 1,
                     outcome |-> Outcome(<<"a", ".">>, <<>>, "Invalid", "Invalid email format")] >>

\* C5: a candidate whose normalized form fails the syntax check comes out
\* Invalid, with reason "Invalid email format" when it has no '@' and
\* "Invalid email syntax" otherwise, and causes no MX lookup and no SMTP
\* connection.
C5_SyntaxInvalid ==
    \A i \in Tasks :
        ~is_valid_email_syntax(Normalized(emails[i])) =>
            /\ wire[i] = <<>>
            /\ frame[i].pc = "idle"
            /\ fut[i].state = "FINISHED" =>
                /\ fut[i].kind = "return"
                /\ Status(fut[i].result) = "Invalid"
                /\ Reason(fut[i].result) =
                        IF AtPositions(emails[i]) = {}
                        THEN "Invalid email format"
                        ELSE "Invalid email syntax"

\* the input "a@a", with an '@' and no dot, has been validated
C5_Witness ==
    /\ gen = "done"
    /\ emails = << <<"a", "@", "a">> >>
    /\ wire[1] = <<>>
    /\ yielded[1].outcome = Outcome(<<"a", "@", "a">>, <<"a">>, "Invalid", "Invalid email syntax")

\* C6: when the resolver finds no mail exchanger for the domain of a
\* syntactically valid candidate, the outcome is (email, domain, Invalid,
\* "No MX records found") and no SMTP connection is attempted.
C6_NoMxRecords ==
    \A i \in Tasks :
        Where(wire[i], LookupFailed) # {} =>
            /\ Where(wire[i], IsConnect) = {}
            /\ frame[i].pc # "probe"
            /\ fut[i].state = "FINISHED"
            /\ fut[i].kind = "return"
            /\ fut[i].result =
                    Outcome(Normalized(emails[i]), AfterAt(Normalized(emails[i])),
                            "Invalid", "No MX records found")

\* "A@a.aa" whose domain does not exist has been validated
C6_Witness ==
    /\ gen = "done"
    /\ emails = << <<"A", "@", "a", ".", "a", "a">> >>
    /\ wire[1][1].exc = "NXDOMAIN"
    /\ yielded[1].outcome =
            Outcome(<<"a", "@", "a", ".", "a", "a">>, <<"a", ".", "a", "a">>,
                    "Invalid", "No MX records found")

\* failures of the transport: refused or failed connection, timeout,
\* dropped session
TransportFailures ==
    {"SMTPConnectError", "ConnectionRefusedError", "TimeoutError", "SMTPServerDisconnected"}

\* the conversation with the host at position p ended in a transport failure
HostFailed(w, p) ==
    \E k \in DOMAIN w :
        /\ w[k].pos = p
        /\ w[k].exc \in TransportFailures
        /\ \A m \in DOMAIN w : m > k => w[m].pos # p

\* every host contacted failed at transport level and no recipient command
\* was answered
AllHostsFailed(w) ==
    /\ Where(w, IsConnect) # {}
    /\ Where(w, RcptReplied) = {}
    /\ \A k \in Where(w, IsConnect) : HostFailed(w, w[k].pos)

\* C7: when every tried host fails at transport level before a recipient
\* exchange completes, the outcome is (email, domain, Invalid, "Could not
\* connect to any MX server").
C7_AllHostsUnreachable ==
    \A i \in Tasks :
        fut[i].state = "FINISHED" /\ AllHostsFailed(wire[i]) =>
            fut[i].result =
                Outcome(Normalized(emails[i]), AfterAt(Normalized(emails[i])),
                        "Invalid", "Could not connect to any MX server")

\* C8: when the recipient command is answered with the success code, the
\* outcome is (email, domain, Valid, "").
C8_RcptAccepted ==
    \A i \in Tasks :
        /\ fut[i].state = "FINISHED"
        /\ \E k \in Where(wire[i], RcptReplied) : wire[i][k].code = 250
        => fut[i].result =
                Outcome(Normalized(emails[i]), AfterAt(Normalized(emails[i])), "Valid", "")

\* the reason the code fixes for a recipient reply that is not the success
\* code
RejectReason(e) ==
    IF e.code = 550 THEN "Mailbox not found"
    ELSE IF e.code = 553 THEN "Invalid email format"
    ELSE "SMTP error: " \o ToString(e.code) \o " " \o e.text

\* C9: when the recipient command is answered with another code, the
\* outcome is Invalid with the reason fixed for that code.
C9_RcptRejected ==
    \A i \in Tasks :
        fut[i].state = "FINISHED" =>
            \A k \in Where(wire[i], RcptReplied) :
                wire[i][k].code # 250 =>
                    /\ Status(fut[i].result) = "Invalid"
                    /\ Reason(fut[i].result) = RejectReason(wire[i][k])

\* C10: get_mx_records never raises; whenever the resolver raises, of
\* whatever class, it returns the empty list.
C10_ResolverNeverRaises ==
    \A i \in Tasks :
        \A k \in DOMAIN wire[i] :
            /\ wire[i][k].cmd # "mx_raise"
            /\ LookupFailed(wire[i][k]) =>
                /\ k + 1 \in DOMAIN wire[i]
                /\ wire[i][k + 1].cmd = "mx_return"
                /\ wire[i][k + 1].code = 0

\* a lookup that failed with a resolver error the code does not name
C10_Witness ==
    /\ Len(wire[1]) = 2
    /\ wire[1][1].cmd = "resolve"
    /\ wire[1][1].exc = "NoNameservers"
    /\ wire[1][2].cmd = "mx_return"
    /\ fut[1].state = "FINISHED"

(***************************************************************************)
(* Properties of the probe: which hosts are contacted.                     *)
(***************************************************************************)
IsMxReturn(e) == e.cmd = "mx_return"

IsSmtp(e) == e.cmd \in SmtpCommands

\* the list get_mx_records returned to the call whose traffic is w
MxList(w) == w[CHOOSE k \in DOMAIN w : IsMxReturn(w[k])].list

\* C11: every host the probe talks to is one of the first 3 entries of the
\* MX list, taken in list order and each at most once: the host at
\* position k+1 is contacted only after the attempt on the host at
\* position k, and only when that attempt got no reply to the recipient
\* command; no host at position 4 or later is ever contacted.
C11_FirstThreeInOrder ==
    \A i \in Tasks :
        LET w == wire[i]
        IN  \A k \in Where(w, IsSmtp) :
              /\ Where(w, IsMxReturn) # {}
              /\ w[k].pos \in 1..3
              /\ w[k].pos <= Len(MxList(w))
              /\ w[k].host = MxList(w)[w[k].pos]
              /\ \A m \in Where(w, IsSmtp) : m < k => w[m].pos <= w[k].pos
              /\ IsConnect(w[k]) =>
                    /\ \A m \in Where(w, IsConnect) : m # k => w[m].pos # w[k].pos
                    /\ w[k].pos > 1 =>
                        /\ \E m \in Where(w, IsConnect) : m < k /\ w[m].pos = w[k].pos - 1
                        /\ \A m \in Where(w, RcptReplied) : w[m].pos # w[k].pos - 1

\* a finished call whose MX list had more than three entries and whose
\* probe went through three hosts, none of which could be connected to
C11_Witness ==
    /\ fut[1].state = "FINISHED"
    /\ Where(wire[1], IsMxReturn) # {}
    /\ Len(MxList(wire[1])) > 3
    /\ Cardinality(Where(wire[1], IsConnect)) = 3
    /\ Status(fut[1].result) = "Invalid"
    /\ Reason(fut[1].result) = "Could not connect to any MX server"

(***************************************************************************)
(* Properties of the outcomes.                                             *)
(***************************************************************************)
\* C12: every outcome the generator yields has a status that is exactly
\* one of Valid, Invalid and Error, and its reason is the empty string if
\* and only if the status is Valid.
C12_StatusAndReason ==
    \A k \in DOMAIN yielded :
        LET o == yielded[k].outcome
        IN  /\ Status(o) \in {"Valid", "Invalid", "Error"}
            /\ Reason(o) = "" <=> Status(o) = "Valid"

\* a consumed batch with a Valid outcome, whose reason is empty, and an
\* Error outcome, whose reason is not
C12_Witness ==
    /\ gen = "done"
    /\ \E k \in DOMAIN yielded :
            Status(yielded[k].outcome) = "Valid" /\ Reason(yielded[k].outcome) = ""
    /\ \E k \in DOMAIN yielded :
            Status(yielded[k].outcome) = "Error" /\ Reason(yielded[k].outcome) # ""

\* the candidate has an '@'
HasAt(e) == AtPositions(e) # {}

\* the first '@' of the candidate is its last character or is followed by
\* another '@': nothing stands where the domain would
NothingAfterAt(e) ==
    /\ HasAt(e)
    /\ \/ Min(AtPositions(e)) = Len(e)
       \/ e[Min(AtPositions(e)) + 1] = "@"

\* C13 as stated: the domain of an outcome is empty only when the status
\* is Invalid and the candidate has no '@'; the outcome of a candidate
\* that has an '@' has a non-empty domain.
C13_DomainEmptyOnlyWithoutAt ==
    \A k \in DOMAIN yielded :
        LET o == yielded[k].outcome
            e == Normalized(emails[yielded[k].task])
        IN  /\ o[2] = <<>> => Status(o) = "Invalid" /\ ~HasAt(e)
            /\ HasAt(e) => o[2] # <<>>

\* C13: the domain of an outcome is empty exactly when the normalized
\* candidate has no '@' (status Invalid, reason 'Invalid email format') or
\* has nothing between its first '@' and the next '@' or its end (status
\* Invalid, reason 'Invalid email syntax'); otherwise the domain is that
\* non-empty text.
C13_DomainEmptyWhenNothingAfterAt ==
    \A k \in DOMAIN yielded :
        LET o == yielded[k].outcome
            e == Normalized(emails[yielded[k].task])
        IN  /\ o[2] = <<>> <=> (~HasAt(e) \/ NothingAfterAt(e))
            /\ ~HasAt(e) => Status(o) = "Invalid" /\ Reason(o) = "Invalid email format"
            /\ NothingAfterAt(e) => Status(o) = "Invalid" /\ Reason(o) = "Invalid email syntax"
            /\ (HasAt(e) /\ ~NothingAfterAt(e)) =>
                    \E n \in 1..Len(e) :
                        /\ o[2] = SubSeq(e, Min(AtPositions(e)) + 1, n)
                        /\ n = Len(e) \/ e[n + 1] = "@"
                        /\ AtPositions(o[2]) = {}

\* the outcome of a candidate that ends in its only '@' has been yielded,
\* and its domain is empty
C13_Witness ==
    /\ gen = "done"
    /\ Len(emails[1]) > 1
    /\ AtPositions(Normalized(emails[1])) = {Len(Normalized(emails[1]))}
    /\ YieldedFor(1)[2] = <<>>
    /\ Reason(YieldedFor(1)) = "Invalid email syntax"

\* C14: validating a raw input and validating its trimmed, lower-cased
\* form in one fixed DNS and SMTP world give the same outcome, field by
\* field, and the same traffic.
C14_NormalizationIdempotent ==
    \A i \in Tasks : \A j \in Tasks :
        (/\ world.fixed
         /\ emails[j] = Normalized(emails[i])
         /\ fut[i].state = "FINISHED"
         /\ fut[j].state = "FINISHED")
        => /\ fut[i].kind = fut[j].kind
           /\ fut[i].result = fut[j].result
           /\ wire[i] = wire[j]
           /\ (i \in YieldedTasks /\ j \in YieldedTasks) => YieldedFor(i) = YieldedFor(j)

\* a raw input with a blank and a capital and its normalized form have
\* both been validated, through the lookup and the probe, and yielded
C14_Witness ==
    /\ world.fixed
    /\ gen = "done"
    /\ Len(emails) = 2
    /\ emails[1] # emails[2]
    /\ emails[2] = Normalized(emails[1])
    /\ Status(YieldedFor(1)) = "Valid"
    /\ Status(YieldedFor(2)) = "Valid"

(***************************************************************************)
(* Properties of the order of the outcomes.                                *)
(***************************************************************************)
\* the calls, in the order their outcomes were yielded
YieldOrder == [k \in DOMAIN yielded |-> yielded[k].task]

\* the calls of q that finished after as_completed had started
Late(q) == LET AfterStart(i) == i \notin snap IN SelectSeq(q, AfterStart)

\* q is the beginning of r
IsPrefix(q, r) == Len(q) <= Len(r) /\ q = SubSeq(r, 1, Len(q))

\* C15 as stated: an outcome is yielded only after its call has finished,
\* and the outcomes are yielded in the order the calls finished: if the
\* call for A finished before the call for B, A's outcome comes before B's.
C15_CompletionOrder ==
    /\ YieldedTasks \subseteq Finished
    /\ IsPrefix(YieldOrder, completed)

\* C15: an outcome is yielded only after its call has finished; the
\* outcomes of the calls that had finished when as_completed started come
\* first, in any order, and the outcomes of the calls that finished later
\* follow them in the order these calls finished.
C15_CompletionOrderWhileWaiting ==
    /\ YieldedTasks \subseteq Finished
    /\ \A m \in DOMAIN yielded : \A n \in DOMAIN yielded :
            (m < n /\ yielded[n].task \in snap) => yielded[m].task \in snap
    /\ IsPrefix(Late(YieldOrder), Late(completed))

\* a consumed batch of two whose calls both finished after as_completed
\* had started, the second one first
C15_Witness ==
    /\ gen = "done"
    /\ snap = {}
    /\ completed = <<2, 1>>
    /\ YieldOrder = <<2, 1>>

(***************************************************************************)
(* Properties of the worker pool.                                          *)
(***************************************************************************)
\* the calls that have been handed to the executor
Submitted == {i \in Tasks : fut[i].state # "UNSUBMITTED"}

\* C16: at every moment the number of calls that are executing is at most
\* max_workers, although every call is submitted before the first outcome
\* is yielded.
C16_BoundedPool ==
    /\ Cardinality(Running) <= max_workers
    /\ \A i \in Tasks : frame[i].pc # "idle" <=> i \in Running
    /\ yielded # <<>> => Submitted = Tasks

\* every call of a batch of two is submitted and none is yielded, the pool
\* of one worker is busy with one call and the other call waits in the queue
C16_Witness ==
    /\ Len(emails) = 2
    /\ Submitted = Tasks
    /\ yielded = <<>>
    /\ max_workers = 1
    /\ Cardinality(Running) = max_workers
    /\ \E i \in Tasks : fut[i].state = "PENDING"

(***************************************************************************)
(* Properties of extract_emails.                                           *)
(***************************************************************************)
\* the rows of the column whose cell, trimmed and lower-cased, is e
RowsOf(column, e) ==
    {k \in DOMAIN column : ~column[k].nan /\ Normalized(column[k].str) = e}

\* C17: extract_emails returns a list without duplicates, in the order of
\* the first occurrence of each element in the column; each element has no
\* blank at either end, no capital, and matches the e-mail pattern; for a
\* column name that the frame does not have it raises ValueError and
\* returns nothing.
C17_ExtractEmails ==
    csv.pc = "done" =>
        LET r == csv.ret
            v == csv.ret.value
        IN  IF csv.email_column \in DOMAIN csv.df
            THEN LET column == csv.df[csv.email_column]
                 IN  /\ r.kind = "return"
                     /\ \A m \in DOMAIN v : \A n \in DOMAIN v : m # n => v[m] # v[n]
                     /\ \A m \in DOMAIN v :
                            /\ v[m] # <<>>
                            /\ v[m][1] \notin SpaceChars
                            /\ v[m][Len(v[m])] \notin SpaceChars
                            /\ \A k \in DOMAIN v[m] : v[m][k] \notin UpperChars
                            /\ email_regex(v[m])
                            /\ RowsOf(column, v[m]) # {}
                     /\ \A m \in DOMAIN v : \A n \in DOMAIN v :
                            m < n => Min(RowsOf(column, v[m])) < Min(RowsOf(column, v[n]))
            ELSE /\ r.kind = "raise"
                 /\ r.exc.type = "ValueError"
                 /\ v = <<>>

\* a column of three rows whose first and last hold the same address in
\* different spellings: two addresses are returned, that one first
C17_Witness ==
    /\ csv.pc = "done"
    /\ csv.email_column = "email"
    /\ Len(csv.df["email"]) = 3
    /\ csv.df["email"][1].str # csv.df["email"][3].str
    /\ Normalized(csv.df["email"][1].str) = Normalized(csv.df["email"][3].str)
    /\ Len(csv.ret.value) = 2
    /\ csv.ret.value[1] = Normalized(csv.df["email"][1].str)

(***************************************************************************)
(* Properties of the probe: which replies and failures end it.             *)
(***************************************************************************)
\* C18: a reply to the recipient command is final: the outcome is the one
\* fixed for the code of that reply, Valid for the success code and Invalid
\* with the reason of the code otherwise, and no host is contacted after
\* it, whatever the code and whether or not the session is then closed
\* without a failure.
C18_RcptReplyFinal ==
    \A i \in Tasks :
        fut[i].state = "FINISHED" =>
            \A k \in Where(wire[i], RcptReplied) :
                /\ \A m \in Where(wire[i], IsConnect) : m < k
                /\ Status(fut[i].result) = IF wire[i][k].code = 250 THEN "Valid" ELSE "Invalid"
                /\ Reason(fut[i].result) =
                        IF wire[i][k].code = 250 THEN "" ELSE RejectReason(wire[i][k])

\* the number of hosts the probe may try: the first 3 of the list
HostsToTry(w) == IF Len(MxList(w)) < 3 THEN Len(MxList(w)) ELSE 3

\* a command to a host ended in a transport failure
TransportFailed(e) == e.cmd \in SmtpCommands /\ e.exc \in TransportFailures

\* C19: a transport failure while talking to a host does not end the
\* probe: no exception leaves the call, and when another host remains
\* among the first 3 the next thing the probe does is connect to it.
C19_TransportFailureNotTerminal ==
    \A i \in Tasks :
        fut[i].state = "FINISHED" =>
            \A k \in Where(wire[i], TransportFailed) :
                /\ Status(fut[i].result) # "Error"
                /\ wire[i][k].pos < HostsToTry(wire[i]) =>
                        /\ k < Len(wire[i])
                        /\ IsConnect(wire[i][k + 1])
                        /\ wire[i][k + 1].pos = wire[i][k].pos + 1

\* the recipient command raised SMTPRecipientsRefused
RcptRefused(e) == e.cmd = "rcpt" /\ e.exc = "SMTPRecipientsRefused"

\* C20: when the recipient command raises SMTPRecipientsRefused the probe
\* ends there, no further host is contacted, and the outcome is Invalid
\* with the reason "Email rejected by server".
C20_RecipientsRefused ==
    \A i \in Tasks :
        fut[i].state = "FINISHED" =>
            \A k \in Where(wire[i], RcptRefused) :
                /\ k = Len(wire[i])
                /\ Status(fut[i].result) = "Invalid"
                /\ Reason(fut[i].result) = "Email rejected by server"

(***************************************************************************)
(* Properties of the conversation with one host.                           *)
(***************************************************************************)
\* the commands sent to the host at position p, in the order they were sent
CommandsTo(w, p) ==
    LET At(e) == e.cmd \in SmtpCommands /\ e.pos = p
        sent == SelectSeq(w, At)
    IN  [k \in DOMAIN sent |-> sent[k].cmd]

\* the sender command was answered with a code outside the success class
MailDeclined(e) == e.cmd = "mail" /\ e.exc = "none" /\ e.code \notin 200..299

\* the orders in which a host can be talked to
CommandOrders ==
    {<<"connect">>, <<"connect", "helo">>, <<"connect", "helo", "mail">>,
     <<"connect", "helo", "mail", "rcpt">>, <<"connect", "helo", "mail", "quit">>,
     <<"connect", "helo", "mail", "rcpt", "quit">>}

\* C21: the commands go to each host in the order connect, greeting,
\* sender, recipient; a recipient command is sent only after a sender
\* command that was accepted; a host that declines the sender command gets
\* no recipient command, is abandoned, and the probe goes on to the next
\* host when one remains among the first 3.
C21_SenderDeclined ==
    \A i \in Tasks :
        fut[i].state = "FINISHED" =>
            LET w == wire[i]
            IN  /\ \A k \in Where(w, IsConnect) : CommandsTo(w, w[k].pos) \in CommandOrders
                /\ \A k \in DOMAIN w :
                        w[k].cmd = "rcpt" =>
                            \E m \in 1..(k - 1) :
                                /\ w[m].cmd = "mail" /\ w[m].pos = w[k].pos
                                /\ w[m].exc = "none" /\ w[m].code \in 200..299
                /\ \A k \in Where(w, MailDeclined) :
                        /\ \A m \in DOMAIN w : w[m].cmd = "rcpt" => w[m].pos # w[k].pos
                        /\ w[k].pos < HostsToTry(w) =>
                                \E m \in Where(w, IsConnect) :
                                    m > k /\ w[m].pos = w[k].pos + 1

(***************************************************************************)
(* Properties of the order of the MX list.                                 *)
(***************************************************************************)
\* the row of answer a that names host h
RowOf(a, h) == CHOOSE k \in DOMAIN a : rstripDot(a[k].exchange) = h

\* the answer of the resolver in the traffic w
MxAnswer(w) == w[CHOOSE k \in DOMAIN w : IsLookup(w[k])].list

\* C22: the list get_mx_records returns holds the hosts of the answer in
\* the order of their preference, lower value first, hosts of equal
\* preference in the order of the answer; so every host the probe
\* contacts is one of the 3 most preferred.
C22_PreferenceOrder ==
    \A i \in Tasks :
        LET w == wire[i]
        IN  Where(w, IsMxReturn) # {} =>
                LET a == MxAnswer(w)
                    l == MxList(w)
                    Pref(h) == a[RowOf(a, h)].preference
                IN  /\ Len(l) = Len(a)
                    /\ \A m \in DOMAIN l : \E k \in DOMAIN a : rstripDot(a[k].exchange) = l[m]
                    /\ \A m \in DOMAIN l : \A n \in DOMAIN l :
                            m < n =>
                                \/ Pref(l[m]) < Pref(l[n])
                                \/ Pref(l[m]) = Pref(l[n]) /\ RowOf(a, l[m]) < RowOf(a, l[n])
                    /\ \A k \in Where(w, IsConnect) :
                            Cardinality({r \in DOMAIN a :
                                a[r].preference < Pref(w[k].host)}) < 3

(***************************************************************************)
(* Properties of the domain field.                                         *)
(***************************************************************************)
\* the position of the first '@' of e after position p, or just past the
\* end of e when there is none
NextAt(e, p) ==
    IF \E q \in AtPositions(e) : q > p
    THEN Min({q \in AtPositions(e) : q > p})
    ELSE Len(e) + 1

\* C23 as stated: for a normalized candidate with at least one '@' the
\* domain of the outcome is all the text after the first '@', later '@'
\* characters included.
C23_DomainIsAllAfterFirstAt ==
    \A k \in DOMAIN yielded :
        LET e == Normalized(emails[yielded[k].task])
        IN  HasAt(e) => yielded[k].outcome[2] = AfterAt(e)

\* C23: for a normalized candidate with at least one '@' the domain of
\* the outcome is the text between the first '@' and the second '@', or
\* the end when there is no second one; it holds no '@', and it is all the
\* text after the first '@' exactly when there is no second '@'.
C23_DomainIsSecondPiece ==
    \A k \in DOMAIN yielded :
        LET e == Normalized(emails[yielded[k].task])
            d == yielded[k].outcome[2]
        IN  HasAt(e) =>
                LET first == Min(AtPositions(e))
                IN  /\ d = SubSeq(e, first + 1, NextAt(e, first) - 1)
                    /\ ~HasAt(d)
                    /\ d = AfterAt(e) <=> NextAt(e, first) = Len(e) + 1

\* the outcome of a candidate with two '@' and text after each has been
\* yielded: its domain is the text between them
C23_Witness ==
    /\ gen = "done"
    /\ Cardinality(AtPositions(Normalized(emails[1]))) = 2
    /\ YieldedFor(1)[2] # <<>>
    /\ YieldedFor(1)[2] # AfterAt(Normalized(emails[1]))
    /\ Len(AfterAt(Normalized(emails[1]))) > Len(YieldedFor(1)[2]) + 1

(***************************************************************************)
(* Properties of the calls of a batch taken together.                      *)
(***************************************************************************)
\* C24: whatever the other calls of the batch do and however the threads
\* interleave, once the batch is consumed the outcome of a call, and what
\* the generator yielded for it, is the outcome validate_single_email
\* gives for its candidate alone when the resolver and the hosts answer as
\* they answered that call.
C24_NoInterference ==
    gen = "done" =>
        \A i \in Tasks :
            i \in traced =>
                LET alone == validate_single_email(emails[i], wire[i])
                IN  /\ fut[i].state = "FINISHED"
                    /\ fut[i].kind = alone.kind
                    /\ fut[i].result = alone.value
                    /\ i \in YieldedTasks
                    /\ YieldedFor(i) = alone.value

\* a consumed batch of two whose calls ran at the same time: the recorded
\* call went through lookup and probe, started first and finished last
C24_Witness ==
    /\ gen = "done"
    /\ Len(emails) = 2
    /\ max_workers = 2
    /\ traced = {1}
    /\ completed = <<2, 1>>
    /\ Where(wire[1], RcptReplied) # {}
    /\ Status(YieldedFor(1)) = "Valid"
    /\ Status(YieldedFor(2)) = "Invalid"
    /\ Reason(YieldedFor(2)) = "Mailbox not found"

(***************************************************************************)
(* Properties of the closing of sessions.                                  *)
(***************************************************************************)
\* C25: whatever the code of the reply to the recipient command, the next
\* thing the probe does is send quit to the same host, and it does so
\* before the call ends.
C25_QuitAfterRcpt ==
    \A i \in Tasks :
        LET w == wire[i]
        IN  \A k \in Where(w, RcptReplied) :
                /\ k < Len(w)
                /\ w[k + 1].cmd = "quit"
                /\ w[k + 1].pos = w[k].pos

\* a finished call whose recipient command was answered with a rejection:
\* quit was sent and answered, and the outcome is the one of the rejection
C25_Witness ==
    /\ fut[1].state = "FINISHED"
    /\ \E k \in Where(wire[1], RcptReplied) :
            /\ wire[1][k].code = 550
            /\ wire[1][k + 1].cmd = "quit"
            /\ wire[1][k + 1].exc = "none"
    /\ Reason(fut[1].result) = "Mailbox not found"

\* the TCP connection to a host was made
Connected(e) == e.cmd = "connect" /\ e.exc = "none"

\* validate_smtp was called and came back with a value
ProbeReturned(i) ==
    /\ fut[i].state = "FINISHED"
    /\ Where(wire[i], IsMxReturn) # {}
    /\ MxList(wire[i]) # <<>>
    /\ fault[i] # "escaped"

SenderDeclinedAt(w, p) ==
    \E k \in DOMAIN w :
        w[k].cmd = "mail" /\ w[k].pos = p /\ w[k].exc = "none" /\ w[k].code # 250

\* every host the probe may try declined the sender, and no command to
\* any host ended in a transport failure
AllSendersDeclined(i) ==
    /\ fut[i].state = "FINISHED"
    /\ Where(wire[i], IsMxReturn) # {}
    /\ MxList(wire[i]) # <<>>
    /\ \A p \in 1..HostsToTry(wire[i]) : SenderDeclinedAt(wire[i], p)
    /\ Where(wire[i], TransportFailed) = {}

\* the traffic of the same call had every host it may try refused the
\* connection with SMTPConnectError
AllUnreachable(w) ==
    SelectSeq(w, IsResolve)
        \o [p \in 1..HostsToTry(w) |->
                Event("connect", MxList(w)[p], p, Raises("SMTPConnectError"))]

StoredResultsSound ==
    /\ session_state.validation_results # None =>
            /\ Len(session_state.validation_results.rows) >= 1
            /\ Len(session_state.validation_results.rows) = Len(script.stored_for)
    /\ script.shown.raised = "none"

\* C28: stored results have at least one row and as many rows as the run
\* that stored them had extracted addresses, so that no tab divides by
\* zero; and whenever no validation run is under way the processing flag
\* is False.
C28_ResultsAndFlag ==
    /\ StoredResultsSound
    /\ script.pc = "idle" => ~session_state.processing

====
